---- MODULE Spec2Model ----
(***************************************************************************)
(* A model of the harvest engines of stac-crawler.py:                      *)
(*   harvest_static_catalog   the level-synchronous Link-Graph traversal   *)
(*   _dynamic_worker          the queue-based Paginated/Federated worker   *)
(*   harvest_dynamic_catalog  federation detection and the worker runs     *)
(* The remote endpoints are the environment: every fetch draws its         *)
(* response from a finite alphabet of responses.                           *)
(***************************************************************************)
EXTENDS Integers, Sequences, FiniteSets, TLC

VARIABLES
    pc,             \* position of the running engine
    start_url,      \* the engine's start_url argument
    max_depth,      \* params["STATIC_HARVEST_MAX_DEPTH"]
    hard_limit,     \* params["COLLECTION_HARD_LIMIT"]
    collections,    \* the record list both engines build
    crawl_notes,    \* the note list both engines build
    to_fetch,       \* Link-Graph: the frontier of this level
    visited,        \* Link-Graph: visited; worker: visited
    depth,          \* Link-Graph: depth
    next_level,     \* Link-Graph: next_level
    results,        \* Link-Graph: outcome of each task of the gather
    todo,           \* Link-Graph: results the for loop has not reached yet
    fetchCount,     \* history: how many GETs each URL has received
    levels,         \* history: how many levels issued their fetches
    maxWidth,       \* history: the widest frontier fetched
    non2xx,         \* history: URLs answered with a non-2xx status
    gaveLinks,      \* history: URLs whose document added to next_level
    dropped,        \* history: resolved links dropped because visited
    abcRun,         \* history: the run so far is the A/B/C scenario
    root_links,     \* harvest_dynamic_catalog: data["links"] of the root
    child_links,    \* harvest_dynamic_catalog: child_links
    link_idx,       \* harvest_dynamic_catalog: position of "for link in child_links"
    queue,          \* worker: queue
    unique,         \* worker: unique, in insertion order
    dynamic_limit,  \* worker: dynamic_limit
    rootOutcome,    \* history: what the Phase A fetch of the root met
    workersRun,     \* history: the start_url of every worker invoked
    workerResults,  \* history: what every worker returned
    lastSeen,       \* history: per id, the content last described to this worker
    overwritten,    \* history: ids a later document described differently
    firstLen,       \* history: length of the first "collections" this worker saw
    lastFailed,     \* history: the worker's last fetch raised
    profiles,       \* generate_crawl_plan / build_knowledge_base: profiles
    crawl_plan,     \* generate_crawl_plan: plan; build_knowledge_base: crawl_plan
    kb_idx,         \* position of the "for p in ..." loop over the profiles
    outcomes,       \* build_knowledge_base: what each endpoint ended with
    kb_pc           \* position of generate_crawl_plan / build_knowledge_base

vars == <<pc, start_url, max_depth, hard_limit, collections, crawl_notes,
          to_fetch, visited, depth, next_level, results, todo,
          fetchCount, levels, maxWidth, non2xx, gaveLinks, dropped, abcRun,
          root_links, child_links, link_idx, queue, unique, dynamic_limit,
          rootOutcome, workersRun, workerResults, lastSeen, overwritten,
          firstLen, lastFailed, profiles, crawl_plan, kb_idx, outcomes, kb_pc>>

\* the variables only harvest_dynamic_catalog and its workers use
dynVars == <<root_links, child_links, link_idx, queue, unique, dynamic_limit,
             rootOutcome, workersRun, workerResults, lastSeen, overwritten,
             firstLen, lastFailed>>

\* the variables only generate_crawl_plan and build_knowledge_base use
kbVars == <<profiles, crawl_plan, kb_idx, outcomes, kb_pc>>

\* the variables only harvest_static_catalog uses
staticVars == <<max_depth, hard_limit, to_fetch, depth, next_level, results, todo,
                levels, maxWidth, non2xx, gaveLinks, dropped, abcRun>>

(***************************************************************************)
(* Bounds and alphabets                                                    *)
(***************************************************************************)
\* the largest STATIC_HARVEST_MAX_DEPTH a run is given
MaxDepthParam == 3

\* the hard limits a run is given; 300 is DEFAULT_STATIC_PARAMS's
HardLimits == {0, 1, 2, 300}

None == "None"

\* URLs of the Link-Graph runs
StaticURLs == {"A", "B", "C"}

\* hrefs as written in a link: absolute, or "" (also a link without href)
StaticHrefs == StaticURLs \cup {""}

StaticLinks ==
    { [rel |-> "child", href |-> "B"],
      [rel |-> "collection", href |-> "C"],
      [rel |-> "child", href |-> "C"],
      [rel |-> "child", href |-> ""],
      [rel |-> "item", href |-> "A"] }

StaticLinkLists ==
    {<<>>} \cup {<<l>> : l \in StaticLinks}
           \cup {<<l, m>> : l \in StaticLinks, m \in StaticLinks}

\* the type / stac_version pairs of the documents served
StaticKinds ==
    { [type |-> "COLLECTION", stac_version |-> None],
      [type |-> None, stac_version |-> "1.0.0"],
      [type |-> "Feature", stac_version |-> None] }

StaticDocs ==
    { [type |-> k.type, stac_version |-> k.stac_version, links |-> ls] :
        k \in StaticKinds, ls \in StaticLinkLists }

\* a response body: not JSON, JSON that is no object, or a document
Unparseable == "unparseable"
NonObject == "nonobject"

\* HTTP statuses of a response
Statuses == {200, 404}

(***************************************************************************)
(* Pure helpers                                                            *)
(***************************************************************************)
\* urllib.parse.urljoin(base, href) on the alphabet: an empty reference
\* resolves to the base, a root-relative one against the host (every URL of
\* the alphabet is on host A), an absolute one to itself
urljoin(base, href) ==
    CASE href = "" -> base
      [] href = "/collections" -> "A/collections"
      [] href = "/collections/" -> "A/collections/"
      [] OTHER -> href

\* str.lower() on the type strings of the alphabet
Lower(t) ==
    CASE t = "COLLECTION" -> "collection"
      [] t = "Feature" -> "feature"
      [] OTHER -> t

\* line 144: is_catalog
is_catalog(data) ==
    \/ (data.type # None /\ Lower(data.type) \in {"catalog", "collection"})
    \/ data.stac_version # None

\* what collections.append(data) keeps of the document in this model: where
\* it came from and the fields that made it a record
StaticRecord(u, data) ==
    [url |-> u, type |-> data.type, stac_version |-> data.stac_version]

\* lines 149-153: the hrefs one document adds to next_level
RECURSIVE StaticChildrenFrom(_, _, _, _)
StaticChildrenFrom(u, links, i, vis) ==
    IF i > Len(links) THEN {}
    ELSE LET link == links[i]
             href == urljoin(u, link.href)
             rest == StaticChildrenFrom(u, links, i + 1, vis)
         IN  IF link.rel \in {"child", "collection"} /\ href # "" /\ href \notin vis
             THEN {href} \cup rest
             ELSE rest

StaticChildren(u, data, vis) == StaticChildrenFrom(u, data.links, 1, vis)

\* resolved followed links of a document that are already visited
StaticDropped(u, data, vis) ==
    { urljoin(u, data.links[i].href) : i \in
        { j \in 1..Len(data.links) :
            /\ data.links[j].rel \in {"child", "collection"}
            /\ urljoin(u, data.links[j].href) \in vis } }

Note(text, n) == [note |-> text, n |-> n]

\* line 131: the while condition
StaticLoopCond_noLimit == to_fetch # {} /\ depth < max_depth

StaticLoopCond_offByOne ==
    to_fetch # {} /\ Len(collections) < hard_limit /\ depth <= max_depth

StaticLoopCond ==
    to_fetch # {} /\ Len(collections) < hard_limit /\ depth < max_depth

\* line 135: visited |= to_fetch
VisitedAfterGather_forgets(vis, tf) == vis

VisitedAfterGather(vis, tf) == vis \cup tf

\* lines 160-163: the notes appended after the loop
StaticNotes ==
    (IF Len(collections) >= hard_limit
     THEN <<Note("Reached collection limit", hard_limit)>> ELSE <<>>)
    \o (IF depth >= max_depth
        THEN <<Note("Reached depth limit", max_depth)>> ELSE <<>>)

\* the response each URL gives in the A/B/C scenario
AbcDocs ==
    [u \in StaticURLs |->
        IF u = "A"
        THEN [type |-> "Feature", stac_version |-> None,
              links |-> << [rel |-> "child", href |-> "B"],
                           [rel |-> "child", href |-> "C"] >>]
        ELSE [type |-> None, stac_version |-> "1.0.0", links |-> <<>>]]

(***************************************************************************)
(* harvest_static_catalog                                                  *)
(***************************************************************************)
InitStatic ==
    /\ pc = "loop"
    /\ start_url = "A"
    /\ max_depth \in 0..MaxDepthParam
    /\ hard_limit \in HardLimits
    /\ collections = <<>>
    /\ crawl_notes = <<>>
    /\ to_fetch = {start_url}
    /\ visited = {}
    /\ depth = 0
    /\ next_level = {}
    /\ results = <<>>
    /\ todo = {}
    /\ fetchCount = [u \in StaticURLs |-> 0]
    /\ levels = 0
    /\ maxWidth = 0
    /\ non2xx = {}
    /\ gaveLinks = {}
    /\ dropped = {}
    /\ abcRun = (max_depth = 2 /\ hard_limit = 300)
    /\ root_links = <<>>
    /\ child_links = <<>>
    /\ link_idx = 0
    /\ queue = <<>>
    /\ unique = <<>>
    /\ dynamic_limit = 0
    /\ rootOutcome = None
    /\ workersRun = <<>>
    /\ workerResults = <<>>
    /\ lastSeen = <<>>
    /\ overwritten = {}
    /\ firstLen = -1
    /\ lastFailed = FALSE
    /\ profiles = <<>>
    /\ crawl_plan = <<>>
    /\ kb_idx = 0
    /\ outcomes = <<>>
    /\ kb_pc = "engine"

\* line 132: one GET per URL of the frontier is issued
StaticIssue ==
    /\ pc = "loop"
    /\ StaticLoopCond
    /\ pc' = "gather"
    /\ results' = [u \in to_fetch |-> "pending"]
    /\ fetchCount' = [u \in StaticURLs |->
                        IF u \in to_fetch THEN fetchCount[u] + 1 ELSE fetchCount[u]]
    /\ levels' = levels + 1
    /\ maxWidth' = IF Cardinality(to_fetch) > maxWidth
                   THEN Cardinality(to_fetch) ELSE maxWidth
    /\ UNCHANGED dynVars
    /\ UNCHANGED kbVars
    /\ UNCHANGED <<start_url, max_depth, hard_limit, collections, crawl_notes,
                   to_fetch, visited, depth, next_level, todo,
                   non2xx, gaveLinks, dropped, abcRun>>

\* line 133: one task of the gather completes, with a response or with an
\* exception (timeout, connection failure)
StaticComplete(u, outcome) ==
    /\ pc = "gather"
    /\ u \in DOMAIN results
    /\ results[u] = "pending"
    /\ results' = [results EXCEPT ![u] = outcome]
    /\ abcRun' = (abcRun /\ outcome = "response")
    /\ UNCHANGED dynVars
    /\ UNCHANGED kbVars
    /\ UNCHANGED <<pc, start_url, max_depth, hard_limit, collections, crawl_notes,
                   to_fetch, visited, depth, next_level, todo,
                   fetchCount, levels, maxWidth, non2xx, gaveLinks, dropped>>

\* line 133: asyncio.gather returns once every task has completed
AllCompleted_any == \E u \in DOMAIN results : results[u] # "pending"

AllCompleted == \A u \in DOMAIN results : results[u] # "pending"

\* lines 133-136: the gather returns when every task has completed
StaticGathered ==
    /\ pc = "gather"
    /\ AllCompleted
    /\ visited' = VisitedAfterGather(visited, to_fetch)
    /\ next_level' = {}
    /\ todo' = to_fetch
    /\ pc' = "process"
    /\ UNCHANGED dynVars
    /\ UNCHANGED kbVars
    /\ UNCHANGED <<start_url, max_depth, hard_limit, collections, crawl_notes,
                   to_fetch, depth, results,
                   fetchCount, levels, maxWidth, non2xx, gaveLinks, dropped, abcRun>>

\* lines 138-140: a result that is an exception is skipped
StaticSkipException(u) ==
    /\ pc = "process"
    /\ u \in todo
    /\ results[u] = "exception"
    /\ todo' = todo \ {u}
    /\ UNCHANGED dynVars
    /\ UNCHANGED kbVars
    /\ UNCHANGED <<pc, start_url, max_depth, hard_limit, collections, crawl_notes,
                   to_fetch, visited, depth, next_level, results,
                   fetchCount, levels, maxWidth, non2xx, gaveLinks, dropped, abcRun>>

\* lines 141-155: a response whose body is not JSON raises JSONDecodeError
StaticSkipUnparseable(u, status) ==
    /\ pc = "process"
    /\ u \in todo
    /\ results[u] = "response"
    /\ todo' = todo \ {u}
    /\ non2xx' = IF status # 200 THEN non2xx \cup {u} ELSE non2xx
    /\ abcRun' = FALSE
    /\ UNCHANGED dynVars
    /\ UNCHANGED kbVars
    /\ UNCHANGED <<pc, start_url, max_depth, hard_limit, collections, crawl_notes,
                   to_fetch, visited, depth, next_level, results,
                   fetchCount, levels, maxWidth, gaveLinks, dropped>>

\* lines 142-143: a JSON body that is no object has no .get: AttributeError
\* is not caught by "except json.JSONDecodeError" and leaves the function
StaticCrash(u, status) ==
    /\ pc = "process"
    /\ u \in todo
    /\ results[u] = "response"
    /\ pc' = "crashed"
    /\ todo' = todo \ {u}
    /\ non2xx' = IF status # 200 THEN non2xx \cup {u} ELSE non2xx
    /\ abcRun' = FALSE
    /\ UNCHANGED dynVars
    /\ UNCHANGED kbVars
    /\ UNCHANGED <<start_url, max_depth, hard_limit, collections, crawl_notes,
                   to_fetch, visited, depth, next_level, results,
                   fetchCount, levels, maxWidth, gaveLinks, dropped>>

\* lines 141-153: a response whose body is a document; its status is never
\* looked at
StaticProcess(u, status, data) ==
    /\ pc = "process"
    /\ u \in todo
    /\ results[u] = "response"
    /\ todo' = todo \ {u}
    /\ collections' = IF is_catalog(data)
                      THEN Append(collections, StaticRecord(u, data))
                      ELSE collections
    /\ next_level' = next_level \cup StaticChildren(u, data, visited)
    /\ non2xx' = IF status # 200 THEN non2xx \cup {u} ELSE non2xx
    /\ gaveLinks' = IF StaticChildren(u, data, visited) # {}
                    THEN gaveLinks \cup {u} ELSE gaveLinks
    /\ dropped' = dropped \cup StaticDropped(u, data, visited)
    /\ abcRun' = (abcRun /\ status = 200 /\ data = AbcDocs[u])
    /\ UNCHANGED dynVars
    /\ UNCHANGED kbVars
    /\ UNCHANGED <<pc, start_url, max_depth, hard_limit, crawl_notes,
                   to_fetch, visited, depth, results,
                   fetchCount, levels, maxWidth>>

\* lines 157-158: the level is done
StaticLevelEnd ==
    /\ pc = "process"
    /\ todo = {}
    /\ to_fetch' = next_level
    /\ depth' = depth + 1
    /\ pc' = "loop"
    /\ UNCHANGED dynVars
    /\ UNCHANGED kbVars
    /\ UNCHANGED <<start_url, max_depth, hard_limit, collections, crawl_notes,
                   visited, next_level, results, todo,
                   fetchCount, levels, maxWidth, non2xx, gaveLinks, dropped, abcRun>>

\* lines 160-165: the loop has ended; the notes are appended and the
\* function returns
StaticReturn ==
    /\ pc = "loop"
    /\ ~StaticLoopCond
    /\ crawl_notes' = crawl_notes \o StaticNotes
    /\ pc' = "done"
    /\ UNCHANGED dynVars
    /\ UNCHANGED kbVars
    /\ UNCHANGED <<start_url, max_depth, hard_limit, collections,
                   to_fetch, visited, depth, next_level, results, todo,
                   fetchCount, levels, maxWidth, non2xx, gaveLinks, dropped, abcRun>>

NextStatic ==
    \/ StaticIssue
    \/ \E u \in StaticURLs, o \in {"response", "exception"} : StaticComplete(u, o)
    \/ StaticGathered
    \/ \E u \in StaticURLs : StaticSkipException(u)
    \/ \E u \in StaticURLs, s \in Statuses : StaticSkipUnparseable(u, s)
    \/ \E u \in StaticURLs, s \in Statuses : StaticCrash(u, s)
    \/ \E u \in StaticURLs, s \in Statuses, d \in StaticDocs : StaticProcess(u, s, d)
    \/ StaticLevelEnd
    \/ StaticReturn

SpecStatic == InitStatic /\ [][NextStatic]_vars

(***************************************************************************)
(* Alphabets of the Paginated/Federated runs                               *)
(***************************************************************************)
DynURLs == {"A", "B", "D", "C.json", "A/collections", "A/collections/"}

DynLinks ==
    { [rel |-> "child", href |-> "B"],
      [rel |-> "child", href |-> "D"],
      [rel |-> "child", href |-> "C.json"],
      [rel |-> "data", href |-> "/collections"],
      [rel |-> "self", href |-> "/collections/"] }

\* the links whose relation the root's federation test looks for
DynChildLinks == {l \in DynLinks : l.rel = "child"}

\* link lists of up to two links; a list of two starts with the child link
\* to B or the one to C.json
DynLinkLists ==
    {<<>>} \cup {<<l>> : l \in DynLinks}
           \cup {<<l, m>> : l \in {k \in DynChildLinks : k.href # "D"}, m \in DynLinks}

Ids == {"x", "z"}

\* an item of a "collections" sequence, or the describing fields of a
\* document: its id (None: no "id" key) and its content, told apart by rev
Item(id, rev) == [id |-> id, rev |-> rev]

\* the value that stands for a document without a "collections" key
Absent == <<Item(None, 0), Item(None, 0), Item(None, 0)>>

Content(type, id, rev, colls) ==
    [type |-> type, id |-> id, rev |-> rev, collections |-> colls]

\* type, id, content and "collections" of the documents served
DynContents ==
    { Content("Catalog", None, 1, Absent),
      Content("Catalog", None, 1, <<>>),
      Content("Catalog", None, 1, <<Item("x", 1)>>),
      Content("Catalog", None, 1, <<Item("x", 1), Item("z", 1)>>),
      Content("Catalog", None, 1, <<Item("x", 1), Item("x", 2)>>),
      Content("Catalog", None, 1, <<Item(None, 1), Item("z", 1)>>),
      Content("Collection", "z", 1, Absent),
      Content("Collection", "z", 2, Absent),
      Content("Collection", "z", 2, <<Item("z", 1)>>) }

Doc(c, ls) ==
    [type |-> c.type, id |-> c.id, rev |-> c.rev,
     collections |-> c.collections, links |-> ls]

DynDocs == { Doc(c, ls) : c \in DynContents, ls \in DynLinkLists }

\* the documents served as the body of an error response
ErrorDocs ==
    { Doc(Content("Catalog", None, 1, <<Item("x", 1), Item("z", 1)>>), ls) :
        ls \in { <<>>, <<[rel |-> "child", href |-> "B"]>> } }

NoDoc == Doc(Content(None, None, 0, Absent), <<>>)

\* what client.get(url) can meet: an exception (timeout, connection
\* failure), or a response with a status and a body
DynResponses ==
    { [outcome |-> "exception", status |-> 0, shape |-> None, data |-> NoDoc] }
    \cup { [outcome |-> "response", status |-> st, shape |-> sh, data |-> NoDoc] :
             st \in Statuses, sh \in {Unparseable, NonObject} }
    \cup { [outcome |-> "response", status |-> 200, shape |-> "object", data |-> d] :
             d \in DynDocs }
    \cup { [outcome |-> "response", status |-> 404, shape |-> "object", data |-> d] :
             d \in ErrorDocs }

(***************************************************************************)
(* Pure helpers of the Paginated/Federated engine                          *)
(***************************************************************************)
\* str.endswith('.json') on the URLs of the alphabet
EndsWithJson(u) == u \in {"C.json"}

\* str.endswith(('/collections', '/collections/')) on the hrefs and URLs
EndsWithCollections_plainOnly(h) == h \in {"/collections", "A/collections"}

EndsWithCollections(h) ==
    h \in {"/collections", "/collections/", "A/collections", "A/collections/"}

\* res.raise_for_status()
raise_for_status_never(resp) == FALSE

raise_for_status(resp) == resp.status \notin 200..299

\* client.get, raise_for_status and res.json() followed by the first
\* data.get: an exception is raised before anything of the body is used
FetchRaises(resp) ==
    \/ resp.outcome = "exception"
    \/ raise_for_status(resp)
    \/ resp.shape # "object"

\* unique[rec["id"]] = rec on a dict that keeps insertion order
Upsert_keepFirst(uq, rec) ==
    IF \E i \in 1..Len(uq) : uq[i].id = rec.id
    THEN uq
    ELSE Append(uq, rec)

Upsert_append(uq, rec) == Append(uq, rec)

Upsert(uq, rec) ==
    IF \E i \in 1..Len(uq) : uq[i].id = rec.id
    THEN [i \in 1..Len(uq) |-> IF uq[i].id = rec.id THEN rec ELSE uq[i]]
    ELSE Append(uq, rec)

\* lines 188-190: for item in data["collections"]
RECURSIVE UpsertItems(_, _, _)
UpsertItems(uq, items, i) ==
    IF i > Len(items) THEN uq
    ELSE UpsertItems(IF items[i].id # None THEN Upsert(uq, items[i]) ELSE uq,
                     items, i + 1)

\* lines 185-193: unique after one document
UniqueAfter(uq, data) ==
    LET afterItems == IF data.collections # Absent
                      THEN UpsertItems(uq, data.collections, 1)
                      ELSE uq
    IN  IF data.type = "Collection" /\ data.id # None
        THEN Upsert(afterItems, Item(data.id, data.rev))
        ELSE afterItems

\* lines 185-187: dynamic_limit after one document
LimitAfter(limit, data) ==
    IF data.collections # Absent /\ limit = 0
    THEN Len(data.collections)
    ELSE limit

\* line 199: href not in visited
NotVisited_always(href, seen) == TRUE

NotVisited(href, seen) == href \notin seen

\* lines 196-201: queue and visited after the links of one document
RECURSIVE EnqueueLinks(_, _, _, _)
EnqueueLinks(qv, url, links, i) ==
    IF i > Len(links) THEN qv
    ELSE LET link == links[i]
             href == urljoin(url, link.href)
         IN  IF /\ link.rel \in {"child", "data", "collection", "children"}
                /\ href # ""
                /\ NotVisited(href, qv.visited)
                /\ ~EndsWithJson(href)
             THEN EnqueueLinks([queue |-> Append(qv.queue, href),
                                visited |-> qv.visited \cup {href}],
                               url, links, i + 1)
             ELSE EnqueueLinks(qv, url, links, i + 1)

\* line 176: the soft limit is reached
SoftLimitReached_never == FALSE

SoftLimitReached == dynamic_limit > 0 /\ Len(unique) >= dynamic_limit

\* line 219: child_links
ChildLinksOf(links) == SelectSeq(links, LAMBDA l : l.rel = "child")

\* line 220: has_master
has_master(links) == \E i \in 1..Len(links) : EndsWithCollections(links[i].href)

\* line 228 / 231: collections.extend(<worker's list>)
Extend_dedup(coll, recs) ==
    coll \o SelectSeq(recs, LAMBDA r : \A i \in 1..Len(coll) : coll[i].id # r.id)

Extend(coll, recs) == coll \o recs

\* the ids a document describes, in the order the worker reads them
Descriptions(data) ==
    (IF data.collections # Absent
     THEN SelectSeq(data.collections, LAMBDA it : it.id # None) ELSE <<>>)
    \o (IF data.type = "Collection" /\ data.id # None
        THEN <<Item(data.id, data.rev)>> ELSE <<>>)

\* the content of id last described by the sequence ds, 0 if none does
LastRev(ds, id) ==
    LET hits == {i \in 1..Len(ds) : ds[i].id = id}
    IN  IF hits = {} THEN 0
        ELSE ds[CHOOSE i \in hits : \A j \in hits : j <= i].rev

\* how the class of the root's response is told, for the history
OutcomeOf(resp) ==
    CASE resp.outcome = "exception" -> "exception"
      [] resp.status # 200 -> "non2xx"
      [] resp.shape # "object" -> resp.shape
      [] OTHER -> "ok"

(***************************************************************************)
(* harvest_dynamic_catalog and _dynamic_worker                             *)
(***************************************************************************)
InitDynamic ==
    /\ pc = "phaseA"
    /\ start_url = "A"
    /\ max_depth = 0
    /\ hard_limit = 0
    /\ collections = <<>>
    /\ crawl_notes = <<>>
    /\ to_fetch = {}
    /\ visited = {}
    /\ depth = 0
    /\ next_level = {}
    /\ results = <<>>
    /\ todo = {}
    /\ fetchCount = [u \in DynURLs |-> 0]
    /\ levels = 0
    /\ maxWidth = 0
    /\ non2xx = {}
    /\ gaveLinks = {}
    /\ dropped = {}
    /\ abcRun = FALSE
    /\ root_links = <<>>
    /\ child_links = <<>>
    /\ link_idx = 0
    /\ queue = <<>>
    /\ unique = <<>>
    /\ dynamic_limit = 0
    /\ rootOutcome = None
    /\ workersRun = <<>>
    /\ workerResults = <<>>
    /\ lastSeen = [id \in Ids |-> 0]
    /\ overwritten = {}
    /\ firstLen = -1
    /\ lastFailed = FALSE
    /\ profiles = <<>>
    /\ crawl_plan = <<>>
    /\ kb_idx = 0
    /\ outcomes = <<>>
    /\ kb_pc = "engine"

\* lines 170-173: a worker starts on sub_root
WorkerStarts(sub_root) ==
    /\ queue' = <<sub_root>>
    /\ visited' = {sub_root}
    /\ unique' = <<>>
    /\ dynamic_limit' = 0
    /\ workersRun' = Append(workersRun, sub_root)
    /\ lastSeen' = [id \in Ids |-> 0]
    /\ overwritten' = {}
    /\ firstLen' = -1
    /\ lastFailed' = FALSE

\* lines 214-215, 234-236: the fetch of the root raises; None is returned
DynRootFails(resp) ==
    /\ pc = "phaseA"
    /\ FetchRaises(resp)
    /\ pc' = "failed"
    /\ fetchCount' = [fetchCount EXCEPT ![start_url] = @ + 1]
    /\ rootOutcome' = OutcomeOf(resp)
    /\ UNCHANGED <<start_url, collections, crawl_notes, visited,
                   root_links, child_links, link_idx, queue, unique, dynamic_limit,
                   workersRun, workerResults, lastSeen, overwritten>>
    /\ UNCHANGED <<firstLen, lastFailed>>
    /\ UNCHANGED staticVars
    /\ UNCHANGED kbVars

\* lines 214-223: the root is fetched and the catalog is federated
DynRootFederated(resp) ==
    /\ pc = "phaseA"
    /\ ~FetchRaises(resp)
    /\ ChildLinksOf(resp.data.links) # <<>>
    /\ ~has_master(resp.data.links)
    /\ fetchCount' = [fetchCount EXCEPT ![start_url] = @ + 1]
    /\ rootOutcome' = OutcomeOf(resp)
    /\ root_links' = resp.data.links
    /\ child_links' = ChildLinksOf(resp.data.links)
    /\ crawl_notes' = Append(crawl_notes,
                             Note("Federated crawl", Len(ChildLinksOf(resp.data.links))))
    /\ link_idx' = 1
    /\ pc' = "fedloop"
    /\ UNCHANGED <<start_url, collections, visited, queue, unique, dynamic_limit,
                   workersRun, workerResults, lastSeen, overwritten>>
    /\ UNCHANGED <<firstLen, lastFailed>>
    /\ UNCHANGED staticVars
    /\ UNCHANGED kbVars

\* lines 214-221, 229-231: the root is fetched and the catalog is a single
\* endpoint; the worker starts on start_url
DynRootSingle(resp) ==
    /\ pc = "phaseA"
    /\ ~FetchRaises(resp)
    /\ ~(ChildLinksOf(resp.data.links) # <<>> /\ ~has_master(resp.data.links))
    /\ fetchCount' = [fetchCount EXCEPT ![start_url] = @ + 1]
    /\ rootOutcome' = OutcomeOf(resp)
    /\ root_links' = resp.data.links
    /\ child_links' = ChildLinksOf(resp.data.links)
    /\ crawl_notes' = Append(crawl_notes, Note("Single endpoint crawl", 0))
    /\ link_idx' = 0
    /\ WorkerStarts(start_url)
    /\ pc' = "worker"
    /\ UNCHANGED <<start_url, collections, workerResults>>
    /\ UNCHANGED staticVars
    /\ UNCHANGED kbVars

\* lines 224-228: the next child link names a sub-catalog; a worker starts
DynFedWorker ==
    /\ pc = "fedloop"
    /\ link_idx <= Len(child_links)
    /\ LET href == urljoin(start_url, child_links[link_idx].href)
       IN  /\ href # "" /\ ~EndsWithJson(href)
           /\ WorkerStarts(href)
    /\ pc' = "worker"
    /\ UNCHANGED <<start_url, collections, crawl_notes, fetchCount,
                   root_links, child_links, link_idx, rootOutcome, workerResults>>
    /\ UNCHANGED staticVars
    /\ UNCHANGED kbVars

\* lines 224-226: the next child link ends in .json and is passed over
DynFedSkip ==
    /\ pc = "fedloop"
    /\ link_idx <= Len(child_links)
    /\ LET href == urljoin(start_url, child_links[link_idx].href)
       IN  ~(href # "" /\ ~EndsWithJson(href))
    /\ link_idx' = link_idx + 1
    /\ UNCHANGED <<pc, start_url, collections, crawl_notes, visited, fetchCount,
                   root_links, child_links, queue, unique, dynamic_limit,
                   rootOutcome, workersRun, workerResults, lastSeen, overwritten>>
    /\ UNCHANGED <<firstLen, lastFailed>>
    /\ UNCHANGED staticVars
    /\ UNCHANGED kbVars

\* line 233: every child link is done; (collections, crawl_notes) is returned
DynFedReturn ==
    /\ pc = "fedloop"
    /\ link_idx > Len(child_links)
    /\ pc' = "done"
    /\ UNCHANGED <<start_url, collections, crawl_notes, visited, fetchCount,
                   root_links, child_links, link_idx, queue, unique, dynamic_limit,
                   rootOutcome, workersRun, workerResults, lastSeen, overwritten>>
    /\ UNCHANGED <<firstLen, lastFailed>>
    /\ UNCHANGED staticVars
    /\ UNCHANGED kbVars

\* lines 179, 202-203: the queue after a turn whose fetch raised; the URL
\* was popped at line 179 and the handler does nothing but continue
QueueAfterSkip_requeue(q) == Append(Tail(q), Head(q))

QueueAfterSkip(q) == Tail(q)

\* lines 175-203: one turn of the worker's loop whose fetch raises
WorkerSkips(resp) ==
    /\ pc = "worker"
    /\ queue # <<>>
    /\ ~SoftLimitReached
    /\ FetchRaises(resp)
    /\ queue' = QueueAfterSkip(queue)
    /\ fetchCount' = [fetchCount EXCEPT ![Head(queue)] = @ + 1]
    /\ UNCHANGED <<pc, start_url, collections, crawl_notes, visited,
                   root_links, child_links, link_idx, unique, dynamic_limit,
                   rootOutcome, workersRun, workerResults, lastSeen, overwritten>>
    /\ lastFailed' = (OutcomeOf(resp) # "ok")
    /\ UNCHANGED firstLen
    /\ UNCHANGED staticVars
    /\ UNCHANGED kbVars

\* lines 175-201: one turn of the worker's loop on a fetched document
WorkerStep(resp) ==
    /\ pc = "worker"
    /\ queue # <<>>
    /\ ~SoftLimitReached
    /\ ~FetchRaises(resp)
    /\ LET url == Head(queue)
           data == resp.data
           qv == EnqueueLinks([queue |-> Tail(queue), visited |-> visited],
                              url, data.links, 1)
           ds == Descriptions(data)
       IN  /\ fetchCount' = [fetchCount EXCEPT ![url] = @ + 1]
           /\ dynamic_limit' = LimitAfter(dynamic_limit, data)
           /\ unique' = UniqueAfter(unique, data)
           /\ queue' = qv.queue
           /\ visited' = qv.visited
           /\ lastSeen' = [id \in Ids |->
                             IF LastRev(ds, id) # 0 THEN LastRev(ds, id)
                             ELSE lastSeen[id]]
           /\ overwritten' = overwritten \cup
                 {id \in Ids : /\ lastSeen[id] # 0
                               /\ LastRev(ds, id) # 0
                               /\ LastRev(ds, id) # lastSeen[id]}
    /\ UNCHANGED <<pc, start_url, collections, crawl_notes,
                   root_links, child_links, link_idx,
                   rootOutcome, workersRun, workerResults>>
    /\ lastFailed' = (OutcomeOf(resp) # "ok")
    /\ firstLen' = IF firstLen = -1 /\ resp.data.collections # Absent
                   THEN Len(resp.data.collections) ELSE firstLen
    /\ UNCHANGED staticVars
    /\ UNCHANGED kbVars

\* lines 175-177, 205, 228 / 231: the worker's loop ends; its list is
\* appended to collections
WorkerReturns ==
    /\ pc = "worker"
    /\ (queue = <<>> \/ SoftLimitReached)
    /\ collections' = Extend(collections, unique)
    /\ workerResults' = Append(workerResults, unique)
    /\ IF link_idx = 0
       THEN pc' = "done" /\ link_idx' = link_idx
       ELSE pc' = "fedloop" /\ link_idx' = link_idx + 1
    /\ UNCHANGED <<start_url, crawl_notes, visited, fetchCount,
                   root_links, child_links, queue, unique, dynamic_limit,
                   rootOutcome, workersRun, lastSeen, overwritten>>
    /\ firstLen' = -1
    /\ lastFailed' = FALSE
    /\ UNCHANGED staticVars
    /\ UNCHANGED kbVars

NextDynamic ==
    \/ \E resp \in DynResponses : DynRootFails(resp)
    \/ \E resp \in DynResponses : DynRootFederated(resp)
    \/ \E resp \in DynResponses : DynRootSingle(resp)
    \/ DynFedWorker
    \/ DynFedSkip
    \/ DynFedReturn
    \/ \E resp \in DynResponses : WorkerSkips(resp)
    \/ \E resp \in DynResponses : WorkerStep(resp)
    \/ WorkerReturns

SpecDynamic == InitDynamic /\ [][NextDynamic]_vars

(***************************************************************************)
(* One invocation of either engine.  Every await of a fetch is answered    *)
(* (the client has a timeout), and the event loop runs the engine's        *)
(* coroutine whenever it can take a step: weak fairness of the next step.  *)
(***************************************************************************)
InitEngines == InitStatic \/ InitDynamic

NextEngines == NextStatic \/ NextDynamic

SpecEnginesFair ==
    InitEngines /\ [][NextEngines]_vars /\ WF_vars(NextEngines)

(***************************************************************************)
(* generate_crawl_plan                                                     *)
(***************************************************************************)
\* the longest list of profiles
MaxProfiles == 2

\* line 40: DEFAULT_DYNAMIC_PARAMS["max_depth"]
DEFAULT_DYNAMIC_MAX_DEPTH == 10

\* line 41: DEFAULT_STATIC_PARAMS["STATIC_HARVEST_MAX_DEPTH"]
DEFAULT_STATIC_MAX_DEPTH == 3

\* line 41: DEFAULT_STATIC_PARAMS["COLLECTION_HARD_LIMIT"]
DEFAULT_STATIC_HARD_LIMIT == 300

\* root URLs, as the sequences of their characters
U_json == <<"a", ".", "j", "s", "o", "n">>
U_fjson == <<"a", "?", "f", "=", "j", "s", "o", "n">>
U_slash == <<"a", "/">>
U_jsonSlash == <<"a", ".", "j", "s", "o", "n", "/">>
U_JSON == <<"a", ".", "J", "S", "O", "N">>
U_ajson == <<"a", "j", "s", "o", "n">>

PlanURLs == {U_json, U_fjson, U_slash, U_jsonSlash, U_JSON, U_ajson}

Slugs == {"s1", "s2"}

\* lines 67-76: the status run_reconnaissance gives a profile
ProfileStatuses == {"OK", "Skipped (Manual Override)", "Failed: ConnectError"}

Profile(slug, status, url) == [slug |-> slug, status |-> status, url |-> url]

PlanProfiles == {Profile(g, st, u) : g \in Slugs, st \in ProfileStatuses, u \in PlanURLs}

SeqsUpTo(S, n) == UNION {[1..k -> S] : k \in 0..n}

\* str.endswith(suf)
EndsWith(str, suf) ==
    /\ Len(str) >= Len(suf)
    /\ SubSeq(str, Len(str) - Len(suf) + 1, Len(str)) = suf

\* line 105: url.endswith(('.json', 'f=json'))
IsStaticURL_jsonOnly(url) == EndsWith(url, <<".", "j", "s", "o", "n">>)

IsStaticURL(url) ==
    \/ EndsWith(url, <<".", "j", "s", "o", "n">>)
    \/ EndsWith(url, <<"f", "=", "j", "s", "o", "n">>)

\* lines 103-108: the entry the rule gives one profile
Strategy(p) ==
    IF p.status # "OK"
    THEN [strategy |-> "Skip"]
    ELSE IF IsStaticURL(p.url)
    THEN [strategy |-> "Static Harvest",
          STATIC_HARVEST_MAX_DEPTH |-> DEFAULT_STATIC_MAX_DEPTH,
          COLLECTION_HARD_LIMIT |-> DEFAULT_STATIC_HARD_LIMIT]
    ELSE [strategy |-> "Dynamic Harvest", max_depth |-> DEFAULT_DYNAMIC_MAX_DEPTH]

\* plan[slug] = ... on a dict
PlanAfter(plan, p) ==
    [g \in DOMAIN plan \cup {p.slug} |-> IF g = p.slug THEN Strategy(p) ELSE plan[g]]

\* the values the engines' variables have while no engine runs
EngineIdle ==
    /\ pc = "idle"
    /\ start_url = None
    /\ max_depth = 0
    /\ hard_limit = 0
    /\ collections = <<>>
    /\ crawl_notes = <<>>
    /\ to_fetch = {}
    /\ visited = {}
    /\ depth = 0
    /\ next_level = {}
    /\ results = <<>>
    /\ todo = {}
    /\ fetchCount = [u \in StaticURLs |-> 0]
    /\ levels = 0
    /\ maxWidth = 0
    /\ non2xx = {}
    /\ gaveLinks = {}
    /\ dropped = {}
    /\ abcRun = FALSE
    /\ root_links = <<>>
    /\ child_links = <<>>
    /\ link_idx = 0
    /\ queue = <<>>
    /\ unique = <<>>
    /\ dynamic_limit = 0
    /\ rootOutcome = None
    /\ workersRun = <<>>
    /\ workerResults = <<>>
    /\ lastSeen = <<>>
    /\ overwritten = {}
    /\ firstLen = -1
    /\ lastFailed = FALSE

engineVars == <<pc, start_url, collections, crawl_notes, visited, fetchCount,
                staticVars, dynVars>>

\* lines 91-97: generate_crawl_plan is called with a list of profiles
InitPlan ==
    /\ EngineIdle
    /\ profiles \in SeqsUpTo(PlanProfiles, MaxProfiles)
    /\ crawl_plan = <<>>
    /\ kb_idx = 1
    /\ outcomes = <<>>
    /\ kb_pc = "plan"

\* lines 98-108: one turn of "for p in profiles"
PlanStep ==
    /\ kb_pc = "plan"
    /\ kb_idx <= Len(profiles)
    /\ crawl_plan' = PlanAfter(crawl_plan, profiles[kb_idx])
    /\ kb_idx' = kb_idx + 1
    /\ UNCHANGED <<profiles, outcomes, kb_pc>>
    /\ UNCHANGED engineVars

\* lines 110-114: the loop is over; the plan is saved and returned
PlanReturn ==
    /\ kb_pc = "plan"
    /\ kb_idx > Len(profiles)
    /\ kb_pc' = "planned"
    /\ UNCHANGED <<profiles, crawl_plan, kb_idx, outcomes>>
    /\ UNCHANGED engineVars

NextPlan == PlanStep \/ PlanReturn

SpecPlan == InitPlan /\ [][NextPlan]_vars

(***************************************************************************)
(* build_knowledge_base.  A static harvest runs harvest_static_catalog,    *)
(* the actions of NextStatic, on the engine's own alphabet of URLs, whose  *)
(* root is "A".  harvest_dynamic_catalog catches every exception (lines    *)
(* 213, 235-236) and hands back None or its pair, the two ways SpecDynamic *)
(* ends; the coordinator reads no more of it than that.                    *)
(***************************************************************************)
CoordProfiles ==
    { Profile("s1", "OK", U_json),
      Profile("s2", "OK", U_slash),
      Profile("s1", "Failed: ConnectError", U_json) }

\* what generate_crawl_plan returns for a list of profiles
RECURSIVE PlanOf(_)
PlanOf(ps) ==
    IF ps = <<>> THEN <<>>
    ELSE PlanAfter(PlanOf(SubSeq(ps, 1, Len(ps) - 1)), ps[Len(ps)])

\* line 249: to_process
to_process == SelectSeq(profiles, LAMBDA p : p.status = "OK")

\* lines 252, 257, 259: crawl_plan.get(slug, {}).get('strategy')
StrategyFor(slug) ==
    IF slug \in DOMAIN crawl_plan THEN crawl_plan[slug].strategy ELSE None

\* what harvest_dynamic_catalog hands back: None, or (collections, notes)
\* with collections empty or not
DynamicResults == {None, "empty", "found"}

\* lines 262-269: what the endpoint ends with
OutcomeFor(result) ==
    CASE result = None -> "processing error"
      [] result = "empty" -> "no collections found"
      [] OTHER -> "entry"

InitCoord ==
    /\ EngineIdle
    /\ profiles \in SeqsUpTo(CoordProfiles, MaxProfiles)
    /\ crawl_plan = PlanOf(profiles)
    /\ kb_idx = 1
    /\ outcomes = <<>>
    /\ kb_pc = "kb"

\* lines 250-258, 119-128: the next endpoint is harvested statically
KbCallStatic ==
    /\ kb_pc = "kb"
    /\ kb_idx <= Len(to_process)
    /\ StrategyFor(to_process[kb_idx].slug) = "Static Harvest"
    /\ kb_pc' = "static"
    /\ pc' = "loop"
    /\ start_url' = "A"
    /\ max_depth' = crawl_plan[to_process[kb_idx].slug].STATIC_HARVEST_MAX_DEPTH
    /\ hard_limit' = crawl_plan[to_process[kb_idx].slug].COLLECTION_HARD_LIMIT
    /\ to_fetch' = {"A"}
    /\ UNCHANGED <<collections, crawl_notes, visited, depth, next_level, results,
                   todo, fetchCount, levels, maxWidth, non2xx, gaveLinks,
                   dropped, abcRun>>
    /\ UNCHANGED dynVars
    /\ UNCHANGED <<profiles, crawl_plan, kb_idx, outcomes>>

\* lines 258, 262-281: harvest_static_catalog returned its pair
KbStaticReturns ==
    /\ kb_pc = "static"
    /\ pc = "done"
    /\ outcomes' = Append(outcomes,
                          [slug |-> to_process[kb_idx].slug,
                           engine |-> "static",
                           outcome |-> OutcomeFor(IF collections = <<>>
                                                  THEN "empty" ELSE "found")])
    /\ kb_idx' = kb_idx + 1
    /\ kb_pc' = "kb"
    /\ pc' = "idle"
    /\ start_url' = None
    /\ max_depth' = 0
    /\ hard_limit' = 0
    /\ collections' = <<>>
    /\ crawl_notes' = <<>>
    /\ to_fetch' = {}
    /\ visited' = {}
    /\ depth' = 0
    /\ next_level' = {}
    /\ results' = <<>>
    /\ todo' = {}
    /\ fetchCount' = [u \in StaticURLs |-> 0]
    /\ levels' = 0
    /\ maxWidth' = 0
    /\ non2xx' = {}
    /\ gaveLinks' = {}
    /\ dropped' = {}
    /\ abcRun' = FALSE
    /\ UNCHANGED dynVars
    /\ UNCHANGED <<profiles, crawl_plan>>

\* line 258: harvest_static_catalog raised; asyncio.run re-raises and
\* build_knowledge_base has no handler
KbStaticRaises ==
    /\ kb_pc = "static"
    /\ pc = "crashed"
    /\ kb_pc' = "aborted"
    /\ UNCHANGED <<profiles, crawl_plan, kb_idx, outcomes>>
    /\ UNCHANGED engineVars

\* lines 250-281: the next endpoint is harvested dynamically
KbDynamic(result) ==
    /\ kb_pc = "kb"
    /\ kb_idx <= Len(to_process)
    /\ StrategyFor(to_process[kb_idx].slug) = "Dynamic Harvest"
    /\ outcomes' = Append(outcomes,
                          [slug |-> to_process[kb_idx].slug,
                           engine |-> "dynamic",
                           outcome |-> OutcomeFor(result)])
    /\ kb_idx' = kb_idx + 1
    /\ UNCHANGED <<profiles, crawl_plan, kb_pc>>
    /\ UNCHANGED engineVars

\* lines 250-264: the plan names no engine for the endpoint; result stays
\* None
KbNoEngine ==
    /\ kb_pc = "kb"
    /\ kb_idx <= Len(to_process)
    /\ StrategyFor(to_process[kb_idx].slug) \notin {"Static Harvest", "Dynamic Harvest"}
    /\ outcomes' = Append(outcomes,
                          [slug |-> to_process[kb_idx].slug,
                           engine |-> None,
                           outcome |-> OutcomeFor(None)])
    /\ kb_idx' = kb_idx + 1
    /\ UNCHANGED <<profiles, crawl_plan, kb_pc>>
    /\ UNCHANGED engineVars

\* lines 283-300: the loop is over
KbReturn ==
    /\ kb_pc = "kb"
    /\ kb_idx > Len(to_process)
    /\ kb_pc' = "finished"
    /\ UNCHANGED <<profiles, crawl_plan, kb_idx, outcomes>>
    /\ UNCHANGED engineVars

NextCoord ==
    \/ KbCallStatic
    \/ (kb_pc = "static" /\ NextStatic)
    \/ KbStaticReturns
    \/ KbStaticRaises
    \/ \E result \in DynamicResults : KbDynamic(result)
    \/ KbNoEngine
    \/ KbReturn

SpecCoord == InitCoord /\ [][NextCoord]_vars

(***************************************************************************)
(* Properties of harvest_static_catalog, checked under SpecStatic          *)
(***************************************************************************)
\* C2: in one run of the Link-Graph engine no URL receives more than one
\* GET, on any link graph: cycles, self-links, several links to one target
\* inside a level.
C2_StaticFetchedOnce == \A u \in StaticURLs : fetchCount[u] <= 1

\* a finished run of three levels in which links back to visited URLs
\* were met and dropped
C2_Witness ==
    /\ pc = "done"
    /\ levels = 3
    /\ Cardinality(dropped) >= 2
    /\ \A u \in StaticURLs : fetchCount[u] = 1

\* C3: fetches are issued only while depth < max_depth, so at most
\* max_depth levels (levels 0..max_depth-1) are fetched, and none at all
\* when max_depth = 0.
C3_DepthBound ==
    /\ pc \in {"gather", "process"} => depth < max_depth
    /\ levels <= max_depth
    /\ max_depth = 0 => \A u \in StaticURLs : fetchCount[u] = 0

\* a run the depth bound cut short: the frontier still holds URLs
C3_Witness ==
    /\ pc = "done"
    /\ max_depth = 2
    /\ levels = 2
    /\ to_fetch # {}
    /\ Len(collections) < hard_limit

\* C4: the record count never exceeds hard_limit plus the width of the
\* widest level fetched.
C4_OvershootBound == Len(collections) <= hard_limit + maxWidth

\* a finished run whose last level took the count past the hard limit
C4_Witness ==
    /\ pc = "done"
    /\ hard_limit = 1
    /\ maxWidth = 2
    /\ Len(collections) = 2

\* C5: the A/B/C scenario (A without recognized type or version and with
\* child links to B and C; B and C with stac_version and without links;
\* max_depth 2, hard_limit 300) ends with exactly the records of B and C
\* and an empty note list.
C5_AbcScenario ==
    (pc = "done" /\ abcRun /\ \A u \in StaticURLs : fetchCount[u] = 1)
        => /\ Len(collections) = 2
           /\ {collections[i].url : i \in 1..Len(collections)} = {"B", "C"}
           /\ crawl_notes = <<>>

\* C10: a URL whose fetch ended in a transport error (an exception, or a
\* non-2xx status) contributes no record and no link.
C10_TransportErrorYieldsNothing ==
    \A u \in non2xx \cup {v \in DOMAIN results : results[v] = "exception"} :
        /\ u \notin gaveLinks
        /\ \A i \in 1..Len(collections) : collections[i].url # u

\* C11: a shape error on one URL (a body that is no JSON, or JSON that is
\* no object) does not abort the traversal: the engine never leaves
\* through an exception, so it goes on to return its result.
C11_ShapeErrorDoesNotAbort == pc # "crashed"

\* C14: on return the hard-limit note is there only if
\* len(collections) >= hard_limit ended the loop, the depth-limit note only
\* if depth >= max_depth did, and a loop that ended on an empty frontier
\* leaves no depth-limit note.
C14_NotesNameTheCause ==
    pc = "done" =>
        LET noted == {crawl_notes[i].note : i \in 1..Len(crawl_notes)}
        IN  /\ "Reached collection limit" \in noted => Len(collections) >= hard_limit
            /\ "Reached depth limit" \in noted => depth >= max_depth
            /\ to_fetch = {} => "Reached depth limit" \notin noted

\* C16: a level is resolved before the next begins. While a fetch of the
\* frontier is pending the engine waits in the gather; the fetches in
\* flight are those of the current frontier; every URL fetched so far has
\* had its result read by the time the next frontier is fetched; and a
\* completion, in whatever order it comes, changes nothing the records or
\* the next frontier are computed from but the task's own result.
C16_LevelBarrier ==
    /\ [](/\ (\E u \in DOMAIN results : results[u] = "pending") => pc = "gather"
          /\ pc \in {"gather", "process"} => DOMAIN results = to_fetch
          /\ pc = "process" => todo \subseteq to_fetch
          /\ pc \in {"loop", "done"} => todo = {}
          /\ {u \in StaticURLs : fetchCount[u] > 0} =
                 (IF pc = "gather" THEN visited \cup to_fetch ELSE visited))
    /\ [][(pc = "gather" /\ pc' = "gather") =>
            /\ UNCHANGED <<collections, next_level, to_fetch, visited, depth, todo>>
            /\ \E u \in to_fetch :
                  /\ results[u] = "pending" /\ results'[u] # "pending"
                  /\ \A v \in to_fetch \ {u} : results'[v] = results[v]]_vars

\* C completed before B did: B is still pending
C16_Witness ==
    /\ pc = "gather"
    /\ to_fetch = {"B", "C"}
    /\ results["B"] = "pending"
    /\ results["C"] = "response"

(***************************************************************************)
(* Properties of harvest_dynamic_catalog, checked under SpecDynamic        *)
(***************************************************************************)
\* C1: in one run of the Paginated/Federated engine (the Phase A fetch and
\* every worker) no URL receives more than one GET.
C1_DynamicFetchedOnce == \A u \in DynURLs : fetchCount[u] <= 1

\* what the worker running, or the one that last returned, holds as result
WorkerResult ==
    IF pc = "worker" \/ workerResults = <<>>
    THEN unique
    ELSE workerResults[Len(workerResults)]

\* C6: the worker's record for an id is the content of the last fetched
\* document that described the id.
C6_LastWriteWins ==
    \A id \in Ids :
        lastSeen[id] # 0 =>
            /\ \E i \in 1..Len(WorkerResult) : WorkerResult[i] = Item(id, lastSeen[id])
            /\ \A i \in 1..Len(WorkerResult) :
                  WorkerResult[i].id = id => WorkerResult[i].rev = lastSeen[id]

\* a finished run in which a later document described z differently
C6_Witness ==
    /\ pc = "done"
    /\ "z" \in overwritten
    /\ \E i \in 1..Len(collections) : collections[i] = Item("z", lastSeen["z"])

\* C7: a root with a child link and no link whose href ends in /collections
\* or /collections/ takes the federated branch, one worker per child link
\* whose resolved href does not end in .json, in link order; a root with
\* such a /collections link takes the single-endpoint branch, one worker on
\* start_url.
C7_BranchSelection ==
    pc = "done" =>
        LET kids == SelectSeq(root_links, LAMBDA l : l.rel = "child")
            master == \E i \in 1..Len(root_links) :
                          root_links[i].href \in {"/collections", "/collections/"}
            subRoots == SelectSeq([i \in 1..Len(kids) |-> urljoin(start_url, kids[i].href)],
                                  LAMBDA h : h # "C.json")
        IN  /\ (kids # <<>> /\ ~master) =>
                  /\ crawl_notes = <<Note("Federated crawl", Len(kids))>>
                  /\ workersRun = subRoots
            /\ master =>
                  /\ crawl_notes = <<Note("Single endpoint crawl", 0)>>
                  /\ workersRun = <<start_url>>

\* a finished federated run that passed over a .json child link
C7_Witness ==
    /\ pc = "done"
    /\ Len(child_links) = 2
    /\ workersRun = <<"D">>
    /\ crawl_notes = <<Note("Federated crawl", 2)>>

RECURSIVE Flatten(_)
Flatten(ss) == IF ss = <<>> THEN <<>> ELSE Head(ss) \o Flatten(Tail(ss))

\* C8: in the federated branch the final records are the workers' results
\* concatenated in child-link order, with no deduplication by id; two
\* sub-catalogs each yielding one collection z give two records.
C8_FederatedConcatenation ==
    (pc = "done" /\ crawl_notes[1].note = "Federated crawl") =>
        /\ collections = Flatten(workerResults)
        /\ Len(workerResults) = Len(workersRun)
        /\ (/\ Len(workerResults) = 2
            /\ \A i \in 1..2 : Len(workerResults[i]) = 1 /\ workerResults[i][1].id = "z")
              => Len(collections) = 2

\* two sub-catalogs B and D each yielded z, with different content
C8_Witness ==
    /\ pc = "done"
    /\ workersRun = <<"B", "D">>
    /\ workerResults = << <<Item("z", 1)>>, <<Item("z", 2)>> >>
    /\ collections = <<Item("z", 1), Item("z", 2)>>

\* C9: when the Phase A fetch of start_url fails (exception, non-2xx
\* status, body that is no JSON object) the engine returns None: no worker
\* runs, nothing is collected, and start_url was fetched exactly once.
C9_RootFailureIsFatal ==
    rootOutcome \in {"exception", "non2xx", Unparseable, NonObject} =>
        /\ pc = "failed"
        /\ workersRun = <<>>
        /\ collections = <<>>
        /\ crawl_notes = <<>>
        /\ \A u \in DynURLs : fetchCount[u] = (IF u = start_url THEN 1 ELSE 0)

\* the root answered with a non-2xx status
C9_Witness == pc = "failed" /\ rootOutcome = "non2xx"

\* C15: the soft limit is assigned once, the first time a fetched document
\* with a collections sequence is seen, to the length of that sequence;
\* before that it is 0 and no later page changes it, an empty first
\* sequence included.
C15_SoftLimitSetOnce ==
    pc = "worker" =>
        dynamic_limit = (IF firstLen = -1 THEN 0 ELSE firstLen)

C18_NoFetchPastSoftLimit ==
    [][(pc = "worker" /\ fetchCount' # fetchCount) =>
          (dynamic_limit = 0 \/ Len(unique) < dynamic_limit)]_vars

\* a single-endpoint run that ended on the soft limit with a URL still
\* queued and never fetched
C18_Witness ==
    /\ pc = "done"
    /\ dynamic_limit > 0
    /\ Len(unique) >= dynamic_limit
    /\ queue # <<>>
    /\ fetchCount[Head(queue)] = 0

\* C20: unique holds at most one record per id at every step, so no list a
\* worker returned has two records of one id, and the records of a finished
\* single-endpoint run have pairwise distinct ids.
C20_OneRecordPerId ==
    LET Distinct(recs) == \A i, j \in 1..Len(recs) :
                              recs[i].id = recs[j].id => i = j
    IN  /\ Distinct(unique)
        /\ \A k \in 1..Len(workerResults) : Distinct(workerResults[k])
        /\ (pc = "done" /\ link_idx = 0) => Distinct(collections)

\* a finished single-endpoint run with two records, one of which was
\* described twice with different content
C20_Witness ==
    /\ pc = "done"
    /\ link_idx = 0
    /\ Len(collections) = 2
    /\ overwritten # {}

\* C19: every invocation of either engine terminates when each fetch
\* completes. The Link-Graph engine runs at most max_depth levels. In a
\* worker every queued URL is marked visited and queued once, a URL is
\* appended only if it was not visited, and every turn of the loop takes
\* one URL off the front of the queue.
C19_EnginesTerminate ==
    /\ <>(pc \in {"done", "crashed", "failed"})
    /\ [](levels <= max_depth /\ depth <= max_depth)
    /\ [](pc = "worker" =>
            /\ \A i \in 1..Len(queue) : queue[i] \in visited
            /\ \A i, j \in 1..Len(queue) : queue[i] = queue[j] => i = j)
    /\ [][(pc = "worker" /\ pc' = "worker") =>
            /\ queue # <<>>
            /\ Len(queue') >= Len(queue) - 1
            /\ SubSeq(queue', 1, Len(queue) - 1) = Tail(queue)
            /\ \A i \in Len(queue)..Len(queue') :
                  queue'[i] \notin visited /\ queue'[i] \in visited'
            /\ visited \subseteq visited']_vars

\* a worker ran its queue empty after fetching three URLs, one of them
\* twice over the run
C19_Witness ==
    /\ pc = "done"
    /\ workersRun # <<>>
    /\ queue = <<>>
    /\ Cardinality({u \in DOMAIN fetchCount : fetchCount[u] > 0}) >= 3

(***************************************************************************)
(* Properties of generate_crawl_plan, checked under SpecPlan               *)
(***************************************************************************)
\* C12: the rules are applied in order to every profile: a status other
\* than OK gives Skip; otherwise a URL ending in .json or f=json gives the
\* static harvest with depth 3 and limit 300; otherwise the dynamic harvest
\* with depth 10. The plan holds exactly one entry per slug met so far, the
\* one of the last profile with that slug.
C12_PlanFollowsRules ==
    kb_pc \in {"plan", "planned"} =>
        LET seen == 1..(kb_idx - 1)
            last(g) == CHOOSE i \in seen :
                          /\ profiles[i].slug = g
                          /\ \A j \in seen : profiles[j].slug = g => j <= i
        IN  /\ DOMAIN crawl_plan = {profiles[i].slug : i \in seen}
            /\ kb_pc = "planned" => kb_idx = Len(profiles) + 1
            /\ \A g \in DOMAIN crawl_plan :
                  LET p == profiles[last(g)]
                  IN  crawl_plan[g] =
                        IF p.status # "OK"
                        THEN [strategy |-> "Skip"]
                        ELSE IF p.url \in {U_json, U_fjson}
                        THEN [strategy |-> "Static Harvest",
                              STATIC_HARVEST_MAX_DEPTH |-> 3,
                              COLLECTION_HARD_LIMIT |-> 300]
                        ELSE [strategy |-> "Dynamic Harvest", max_depth |-> 10]

\* a finished plan: s1, reachable at a URL ending in f=json, is harvested
\* statically and s2, at a URL with .json inside, dynamically
C12_Witness ==
    /\ kb_pc = "planned"
    /\ profiles = <<Profile("s1", "OK", U_fjson), Profile("s2", "OK", U_jsonSlash)>>
    /\ crawl_plan["s1"].strategy = "Static Harvest"
    /\ crawl_plan["s2"].strategy = "Dynamic Harvest"

(***************************************************************************)
(* Properties of build_knowledge_base, checked under SpecCoord             *)
(***************************************************************************)
\* C13: a failure or an empty result of one endpoint does not halt the
\* others: when build_knowledge_base is over, every profile with status OK
\* has its outcome, an entry, a processing error or no collections found,
\* in profile order, and one whose slug no other profile bears was handed
\* to the engine of its own strategy.
C13_EveryOkEndpointGetsOutcome ==
    kb_pc \in {"finished", "aborted"} =>
        /\ Len(outcomes) = Len(to_process)
        /\ \A i \in 1..Len(outcomes) :
              /\ outcomes[i].slug = to_process[i].slug
              /\ outcomes[i].outcome \in
                    {"entry", "processing error", "no collections found"}
              /\ (\A j, k \in 1..Len(profiles) :
                      (/\ profiles[j].slug = to_process[i].slug
                       /\ profiles[k].slug = to_process[i].slug) => j = k)
                    => outcomes[i].engine =
                          (IF to_process[i].url \in {U_json, U_fjson}
                           THEN "static" ELSE "dynamic")

====
